---- MODULE Spec2Model ----
(***************************************************************************)
(* Model of the relay bot in src/main.py: the config store (loadConfig,    *)
(* getRelayChannels, updateRelayChannels, removeRelayEntry), the add and   *)
(* remove command flows, and the on_message router.                        *)
(*                                                                         *)
(* Text is a sequence of one-character strings, so str(), int(), strip()   *)
(* and lower() are computed, not assumed.  The backing file config.json is *)
(* a record [kind, config]: kind "absent" (no file), "empty" (no text or   *)
(* only whitespace), "invalid" (text json.loads rejects) or "json" (an     *)
(* object; config is the parsed dict, a function from field names).  The   *)
(* relayChannels field, when present, is a function from source-id strings *)
(* to sequences of destination ids.  File contents whose JSON value is not *)
(* an object of that shape make the store functions raise before any write *)
(* and are outside the model.                                              *)
(***************************************************************************)
EXTENDS Integers, Sequences, FiniteSets, TLC

VARIABLES
    file,        \* contents of config.json
    last,        \* the last direct call of a store function: arguments, file before, result
    flows,       \* the add/remove invocations, in start order
    msg,         \* the message event being dispatched, <<>> when none
    toResume,    \* flows whose wait_for was satisfied by msg and have not resumed yet
    toHandle,    \* on_message(msg) has not run yet
    sent,        \* channel sends (to, content) of the last on_message run
    dispatched   \* process_commands calls of the last on_message run

vars == <<file, last, flows, msg, toResume, toHandle, sent, dispatched>>

(***************************************************************************)
(* Bounds of the model.                                                    *)
(***************************************************************************)
MaxLen == 3      \* longest destination list an add may produce
InitLen == 1     \* longest destination list in the initial file
MaxFlows == 2    \* command invocations per behaviour

(***************************************************************************)
(* The guild: two channels that resolve, one id that resolves to nothing.  *)
(***************************************************************************)
Channels == {10, 20}
Dangling == 30
DestIds == Channels \cup {Dangling}

(***************************************************************************)
(* Text.                                                                   *)
(***************************************************************************)
DigitChars == <<"0", "1", "2", "3", "4", "5", "6", "7", "8", "9">>
UpperChars == <<"A", "B", "C", "D", "E", "F", "G", "H", "I", "J", "K", "L", "M",
                "N", "O", "P", "Q", "R", "S", "T", "U", "V", "W", "X", "Y", "Z">>
LowerChars == <<"a", "b", "c", "d", "e", "f", "g", "h", "i", "j", "k", "l", "m",
                "n", "o", "p", "q", "r", "s", "t", "u", "v", "w", "x", "y", "z">>

IsDigit(c) == \E i \in 1..Len(DigitChars) : DigitChars[i] = c
DigitVal(c) == (CHOOSE i \in 1..Len(DigitChars) : DigitChars[i] = c) - 1

RECURSIVE Str(_)
\* str(n) for n >= 0: the decimal digits
Str(n) == IF n < 10 THEN <<DigitChars[n + 1]>>
          ELSE Str(n \div 10) \o <<DigitChars[(n % 10) + 1]>>

RECURSIVE LStrip(_)
LStrip(s) == IF s # <<>> /\ Head(s) = " " THEN LStrip(Tail(s)) ELSE s

RECURSIVE RStrip(_)
RStrip(s) == IF s # <<>> /\ s[Len(s)] = " " THEN RStrip(SubSeq(s, 1, Len(s) - 1)) ELSE s

\* str.strip()
Strip(s) == RStrip(LStrip(s))

LowerChar(c) == IF \E i \in 1..Len(UpperChars) : UpperChars[i] = c
                THEN LowerChars[CHOOSE i \in 1..Len(UpperChars) : UpperChars[i] = c]
                ELSE c

\* str.lower()
Lower(s) == [i \in 1..Len(s) |-> LowerChar(s[i])]

RECURSIVE DigitsVal(_)
DigitsVal(s) == IF s = <<>> THEN 0
                ELSE 10 * DigitsVal(SubSeq(s, 1, Len(s) - 1)) + DigitVal(s[Len(s)])

\* int(s): ok is FALSE where Python raises ValueError
ParseInt(s) ==
    LET t == Strip(s)
    IN  IF t # <<>> /\ \A i \in 1..Len(t) : IsDigit(t[i])
        THEN [ok |-> TRUE, val |-> DigitsVal(t)]
        ELSE [ok |-> FALSE, val |-> 0]

(***************************************************************************)
(* Mappings (Python dicts) and lists.                                      *)
(***************************************************************************)
EmptyMap == << >>
Put(m, k, v) == [x \in DOMAIN m \cup {k} |-> IF x = k THEN v ELSE m[x]]
Del(m, k) == [x \in DOMAIN m \ {k} |-> m[x]]

Occurs(l, d) == \E i \in 1..Len(l) : l[i] = d
Count(l, d) == Cardinality({i \in 1..Len(l) : l[i] = d})

\* a remove that drops the last occurrence
RemoveFirst_Last(l, d) ==
    LET i == CHOOSE j \in 1..Len(l) : l[j] = d /\ \A k \in (j + 1)..Len(l) : l[k] # d
    IN  SubSeq(l, 1, i - 1) \o SubSeq(l, i + 1, Len(l))

\* list.remove(d): drops the first occurrence
RemoveFirst(l, d) ==
    LET i == CHOOSE j \in 1..Len(l) : l[j] = d /\ \A k \in 1..(j - 1) : l[k] # d
    IN  SubSeq(l, 1, i - 1) \o SubSeq(l, i + 1, Len(l))

(***************************************************************************)
(* The backing file and the config store.                                  *)
(***************************************************************************)
DefaultConfig == [relayChannels |-> EmptyMap]
NoConfig == << >>

Absent == [kind |-> "absent", config |-> NoConfig]
EmptyFile == [kind |-> "empty", config |-> NoConfig]
InvalidFile == [kind |-> "invalid", config |-> NoConfig]
\* json.dump(config, f): the file then parses back to config
JsonFile(config) == [kind |-> "json", config |-> config]

\* config.get("relayChannels", {})
RelayOf(config) == IF "relayChannels" \in DOMAIN config THEN config["relayChannels"]
                   ELSE EmptyMap

\* config["relayChannels"] = relay
SetRelay(config, relay) == Put(config, "relayChannels", relay)

\* loadConfig() without the reset of an unparsable file (lines 35-36 dropped)
loadConfig_NoReset(f) ==
    CASE f.kind = "empty"   -> [config |-> DefaultConfig, file |-> f]
      [] f.kind = "json"    -> [config |-> f.config, file |-> f]
      [] f.kind = "absent"  -> [config |-> DefaultConfig, file |-> JsonFile(DefaultConfig)]
      [] f.kind = "invalid" -> [config |-> DefaultConfig, file |-> f]

\* loadConfig(): the config returned and the file left behind
loadConfig(f) ==
    CASE f.kind = "empty"   -> [config |-> DefaultConfig, file |-> f]
      [] f.kind = "json"    -> [config |-> f.config, file |-> f]
      [] f.kind = "absent"  -> [config |-> DefaultConfig, file |-> JsonFile(DefaultConfig)]
      [] f.kind = "invalid" -> [config |-> DefaultConfig, file |-> JsonFile(DefaultConfig)]

\* getRelayChannels(): the mapping returned and the file left behind
getRelayChannels(f) ==
    LET l == loadConfig(f)
    IN  [relay |-> RelayOf(l.config), file |-> l.file]

\* updateRelayChannels that skips a destination already in the list
updateRelayChannels_Dedup(f, sourceId, destId) ==
    LET config == loadConfig(f).config
        relay == RelayOf(config)
        old == IF sourceId \in DOMAIN relay THEN relay[sourceId] ELSE <<>>
        new == IF Occurs(old, destId) THEN old ELSE Append(old, destId)
    IN  JsonFile(SetRelay(config, Put(relay, sourceId, new)))

\* updateRelayChannels(sourceId, destId): the file left behind
updateRelayChannels(f, sourceId, destId) ==
    LET config == loadConfig(f).config
        relay == RelayOf(config)
        old == IF sourceId \in DOMAIN relay THEN relay[sourceId] ELSE <<>>
    IN  JsonFile(SetRelay(config, Put(relay, sourceId, Append(old, destId))))

\* removeRelayEntry without the deletion of an emptied key (lines 67-69 dropped)
removeRelayEntry_KeepEmpty(f, sourceId, destId) ==
    LET l == loadConfig(f)
        relay == RelayOf(l.config)
    IN  IF sourceId \notin DOMAIN relay
        THEN [ret |-> FALSE, file |-> l.file]
        ELSE IF destId = <<>>
        THEN [ret |-> TRUE,
              file |-> JsonFile(SetRelay(l.config, Del(relay, sourceId)))]
        ELSE IF Occurs(relay[sourceId], destId[1])
        THEN LET rest == RemoveFirst(relay[sourceId], destId[1])
             IN  [ret |-> TRUE,
                  file |-> JsonFile(SetRelay(l.config, Put(relay, sourceId, rest)))]
        ELSE [ret |-> FALSE, file |-> l.file]

\* removeRelayEntry with the emptiness test of line 67 inverted
removeRelayEntry_InvertedTest(f, sourceId, destId) ==
    LET l == loadConfig(f)
        relay == RelayOf(l.config)
    IN  IF sourceId \notin DOMAIN relay
        THEN [ret |-> FALSE, file |-> l.file]
        ELSE IF destId = <<>>
        THEN [ret |-> TRUE,
              file |-> JsonFile(SetRelay(l.config, Del(relay, sourceId)))]
        ELSE IF Occurs(relay[sourceId], destId[1])
        THEN LET rest == RemoveFirst(relay[sourceId], destId[1])
                 after == IF rest # <<>> THEN Del(relay, sourceId)
                          ELSE Put(relay, sourceId, rest)
             IN  [ret |-> TRUE, file |-> JsonFile(SetRelay(l.config, after))]
        ELSE [ret |-> FALSE, file |-> l.file]

\* removeRelayEntry that persists the config on the not-found paths too
removeRelayEntry_AlwaysSaves(f, sourceId, destId) ==
    LET l == loadConfig(f)
        relay == RelayOf(l.config)
    IN  IF sourceId \notin DOMAIN relay
        THEN [ret |-> FALSE, file |-> JsonFile(SetRelay(l.config, relay))]
        ELSE IF destId = <<>>
        THEN [ret |-> TRUE,
              file |-> JsonFile(SetRelay(l.config, Del(relay, sourceId)))]
        ELSE IF Occurs(relay[sourceId], destId[1])
        THEN LET rest == RemoveFirst(relay[sourceId], destId[1])
                 after == IF rest = <<>> THEN Del(relay, sourceId)
                          ELSE Put(relay, sourceId, rest)
             IN  [ret |-> TRUE, file |-> JsonFile(SetRelay(l.config, after))]
        ELSE [ret |-> FALSE, file |-> JsonFile(SetRelay(l.config, relay))]

\* removeRelayEntry whose remove-all empties the list and keeps the key
removeRelayEntry_ClearsList(f, sourceId, destId) ==
    LET l == loadConfig(f)
        relay == RelayOf(l.config)
    IN  IF sourceId \notin DOMAIN relay
        THEN [ret |-> FALSE, file |-> l.file]
        ELSE IF destId = <<>>
        THEN [ret |-> TRUE,
              file |-> JsonFile(SetRelay(l.config, Put(relay, sourceId, <<>>)))]
        ELSE IF Occurs(relay[sourceId], destId[1])
        THEN LET rest == RemoveFirst(relay[sourceId], destId[1])
                 after == IF rest = <<>> THEN Del(relay, sourceId)
                          ELSE Put(relay, sourceId, rest)
             IN  [ret |-> TRUE, file |-> JsonFile(SetRelay(l.config, after))]
        ELSE [ret |-> FALSE, file |-> l.file]

\* removeRelayEntry(sourceId, destId=None): destId is <<>> for None, <<d>> for d
removeRelayEntry(f, sourceId, destId) ==
    LET l == loadConfig(f)
        relay == RelayOf(l.config)
    IN  IF sourceId \notin DOMAIN relay
        THEN [ret |-> FALSE, file |-> l.file]
        ELSE IF destId = <<>>
        THEN [ret |-> TRUE,
              file |-> JsonFile(SetRelay(l.config, Del(relay, sourceId)))]
        ELSE IF Occurs(relay[sourceId], destId[1])
        THEN LET rest == RemoveFirst(relay[sourceId], destId[1])
                 after == IF rest = <<>> THEN Del(relay, sourceId)
                          ELSE Put(relay, sourceId, rest)
             IN  [ret |-> TRUE, file |-> JsonFile(SetRelay(l.config, after))]
        ELSE [ret |-> FALSE, file |-> l.file]

(***************************************************************************)
(* Initial states.                                                         *)
(***************************************************************************)
SourceIds == {Str(c) : c \in Channels}

RECURSIVE SeqsUpTo(_, _)
SeqsUpTo(S, n) == IF n = 0 THEN {<<>>}
                  ELSE LET shorter == SeqsUpTo(S, n - 1)
                       IN  shorter \cup {Append(s, x) : s \in shorter, x \in S}

InitRelays ==
    UNION {[K -> SeqsUpTo(DestIds, InitLen)] : K \in SUBSET SourceIds}

InitFiles ==
    {Absent, EmptyFile, InvalidFile, JsonFile(NoConfig)}
        \cup {JsonFile([relayChannels |-> r]) : r \in InitRelays}

NoCall == [op |-> "none", sourceId |-> <<>>, destId |-> <<>>, pre |-> Absent,
           ret |-> FALSE, config |-> NoConfig]

Init ==
    /\ file \in InitFiles
    /\ last = NoCall
    /\ flows = <<>>
    /\ msg = <<>>
    /\ toResume = {}
    /\ toHandle = FALSE
    /\ sent = <<>>
    /\ dispatched = 0

botVars == <<flows, msg, toResume, toHandle, sent, dispatched>>

(***************************************************************************)
(* The store functions called directly, with any arguments.                *)
(***************************************************************************)
CallLoad ==
    /\ file' = loadConfig(file).file
    /\ last' = [op |-> "load", sourceId |-> <<>>, destId |-> <<>>, pre |-> file,
                ret |-> FALSE, config |-> loadConfig(file).config]
    /\ UNCHANGED botVars

CallAdd ==
    \E s \in SourceIds, d \in DestIds :
        /\ LET relay == getRelayChannels(file).relay
           IN  s \in DOMAIN relay => Len(relay[s]) < MaxLen
        /\ file' = updateRelayChannels(file, s, d)
        /\ last' = [op |-> "add", sourceId |-> s, destId |-> <<d>>, pre |-> file,
                    ret |-> FALSE, config |-> NoConfig]
        /\ UNCHANGED botVars

CallRemove ==
    \E s \in SourceIds, d \in {<<>>} \cup {<<x>> : x \in DestIds} :
        /\ file' = removeRelayEntry(file, s, d).file
        /\ last' = [op |-> "remove", sourceId |-> s, destId |-> d, pre |-> file,
                    ret |-> removeRelayEntry(file, s, d).ret, config |-> NoConfig]
        /\ UNCHANGED botVars

StoreNext == CallLoad \/ CallAdd \/ CallRemove

StoreSpec == Init /\ [][StoreNext]_vars

(***************************************************************************)
(* The bot: users, messages, the add and remove flows, on_message.         *)
(*                                                                         *)
(* A message event first resolves the wait_for of every flow whose check   *)
(* accepts it and schedules on_message; the resumed flows and on_message   *)
(* then run one at a time, each without yielding up to its next send, in   *)
(* an order the library and the event loop decide.  A send is taken to     *)
(* complete at once, and the next event is dispatched when these have run. *)
(***************************************************************************)
Admin == "admin"
Member == "member"
BotUser == "relaybot"
Users == {Admin, Member, BotUser}

\* message.author.bot
IsBot(u) == u = BotUser
\* commands.has_permissions(administrator=True)
IsAdministrator(u) == u = Admin

AddCommand == <<"<", "a", "d", "d">>
RemoveCommand == <<"<", "r", "e", "m", "o", "v", "e">>
MentionOf(c) == <<"<", "#">> \o Str(c) \o <<">">>

Contents ==
    {Str(10), Str(20), Str(Dangling), <<" ">> \o Str(20) \o <<" ">>, MentionOf(10),
     <<"a", "l", "l">>, <<"A", "l", "l">>, AddCommand, RemoveCommand,
     RemoveCommand \o <<" ">> \o MentionOf(10)}

\* The administrator may send any of the texts.  A member's and the bot's own
\* messages start and resume no flow, so their text only matters as the text
\* forwarded and as a command a member may not invoke.
Messages ==
    [author : {Admin}, channel : Channels, content : Contents]
        \cup [author : {Member}, channel : Channels, content : {Str(20), AddCommand}]
        \cup [author : {BotUser}, channel : Channels, content : {Str(20)}]

\* bot.get_channel(id): <<>> for None
get_channel(id) == IF id \in Channels THEN <<id>> ELSE <<>>

RECURSIVE MentionsFrom(_, _)
\* the channels of the guild named by the <#id> mentions of c from position a on
MentionsFrom(c, a) ==
    IF a > Len(c) THEN <<>>
    ELSE LET ends == {b \in (a + 3)..Len(c) :
                         /\ c[a] = "<" /\ c[a + 1] = "#" /\ c[b] = ">"
                         /\ \A k \in (a + 2)..(b - 1) : IsDigit(c[k])}
         IN  IF ends = {} THEN MentionsFrom(c, a + 1)
             ELSE LET b == CHOOSE x \in ends : \A y \in ends : x <= y
                  IN  get_channel(DigitsVal(SubSeq(c, a + 2, b - 1)))
                          \o MentionsFrom(c, b + 1)

\* message.channel_mentions: the channels of the guild the text mentions
channel_mentions(content) == MentionsFrom(content, 1)

\* lines 95-98: the first mentioned channel, else get_channel(int(text.strip()));
\* raised where int() raises ValueError
ResolveReply(content) ==
    IF channel_mentions(content) # <<>>
    THEN [raised |-> FALSE, channel |-> <<channel_mentions(content)[1]>>]
    ELSE IF ~ParseInt(Strip(content)).ok
    THEN [raised |-> TRUE, channel |-> <<>>]
    ELSE [raised |-> FALSE, channel |-> get_channel(ParseInt(Strip(content)).val)]

\* the text up to its first space
FirstWord(c) ==
    LET spaces == {i \in 1..Len(c) : c[i] = " "}
    IN  IF spaces = {} THEN c
        ELSE SubSeq(c, 1, (CHOOSE x \in spaces : \A y \in spaces : x <= y) - 1)

\* the command a text invokes under the prefix "<": <<>> for none; what
\* follows the command's name is ignored
CommandOf(content) ==
    IF FirstWord(content) = AddCommand THEN <<"add">>
    ELSE IF FirstWord(content) = RemoveCommand THEN <<"remove">>
    ELSE <<>>

\* a check that looks at the author only
check_channel_AuthorOnly(fl, m) == m.author = fl.author

\* a check that leaves messages that invoke a command to the command
check_channel_SkipsCommands(fl, m) ==
    m.author = fl.author /\ m.channel = fl.channel /\ CommandOf(m.content) = <<>>

\* check_channel(m) of a flow
check_channel(fl, m) == m.author = fl.author /\ m.channel = fl.channel

\* a flow as its command starts: the first prompt is sent, the first wait
\* begins; start records the mapping in the file at that moment
NewFlow(cmd, m, relay) ==
    [cmd |-> cmd, author |-> m.author, channel |-> m.channel,
     pc |-> "source", source |-> 0, notice |-> "", start |-> relay]

Finish(fl, notice) == [fl EXCEPT !.pc = "done", !.notice = notice]

\* a source reply that asks again when the channel does not resolve
onSourceReply_Retries(fl, m) ==
    LET r == ResolveReply(m.content)
    IN  IF r.raised THEN Finish(fl, "cancelled")
        ELSE IF r.channel = <<>> THEN fl
        ELSE [fl EXCEPT !.pc = "dest", !.source = r.channel[1]]

\* add and remove, after the first wait: the source reply
onSourceReply(fl, m) ==
    LET r == ResolveReply(m.content)
    IN  IF r.raised THEN Finish(fl, "cancelled")
        ELSE IF r.channel = <<>> THEN Finish(fl, "invalid_source")
        ELSE [fl EXCEPT !.pc = "dest", !.source = r.channel[1]]

\* add that commits the id typed before it checks that the channel resolved
add_onDestReply_CommitsFirst(f, fl, m) ==
    LET r == ResolveReply(m.content)
    IN  IF r.raised THEN [flow |-> Finish(fl, "cancelled"), file |-> f]
        ELSE IF r.channel = <<>>
        THEN [flow |-> Finish(fl, "invalid_dest"),
              file |-> updateRelayChannels(f, Str(fl.source), ParseInt(Strip(m.content)).val)]
        ELSE [flow |-> Finish(fl, "added"),
              file |-> updateRelayChannels(f, Str(fl.source), r.channel[1])]

\* add, after the second wait: the destination reply and the commit
add_onDestReply(f, fl, m) ==
    LET r == ResolveReply(m.content)
    IN  IF r.raised THEN [flow |-> Finish(fl, "cancelled"), file |-> f]
        ELSE IF r.channel = <<>> THEN [flow |-> Finish(fl, "invalid_dest"), file |-> f]
        ELSE [flow |-> Finish(fl, "added"),
              file |-> updateRelayChannels(f, Str(fl.source), r.channel[1])]

\* remove that compares the reply with "all" without lower()
remove_onDestReply_CaseSensitive(f, fl, m) ==
    IF m.content = <<"a", "l", "l">>
    THEN LET r == removeRelayEntry(f, Str(fl.source), <<>>)
         IN  [flow |-> Finish(fl, IF r.ret THEN "removed_all" ELSE "no_relays"),
              file |-> r.file]
    ELSE IF channel_mentions(m.content) = <<>> /\ ~ParseInt(Strip(m.content)).ok
    THEN [flow |-> Finish(fl, "invalid_dest_id"), file |-> f]
    ELSE LET dest == ResolveReply(m.content).channel
         IN  IF dest = <<>> THEN [flow |-> Finish(fl, "invalid_dest"), file |-> f]
             ELSE LET r == removeRelayEntry(f, Str(fl.source), dest)
                  IN  [flow |-> Finish(fl, IF r.ret THEN "removed" ELSE "not_found"),
                       file |-> r.file]

\* remove that reports success whatever removeRelayEntry returned
remove_onDestReply_IgnoresResult(f, fl, m) ==
    IF Lower(m.content) = <<"a", "l", "l">>
    THEN LET r == removeRelayEntry(f, Str(fl.source), <<>>)
         IN  [flow |-> Finish(fl, IF r.ret THEN "removed_all" ELSE "no_relays"),
              file |-> r.file]
    ELSE IF channel_mentions(m.content) = <<>> /\ ~ParseInt(Strip(m.content)).ok
    THEN [flow |-> Finish(fl, "invalid_dest_id"), file |-> f]
    ELSE LET dest == ResolveReply(m.content).channel
         IN  IF dest = <<>> THEN [flow |-> Finish(fl, "invalid_dest"), file |-> f]
             ELSE LET r == removeRelayEntry(f, Str(fl.source), dest)
                  IN  [flow |-> Finish(fl, "removed"), file |-> r.file]

\* remove, after the second wait: `all` or a destination
remove_onDestReply(f, fl, m) ==
    IF Lower(m.content) = <<"a", "l", "l">>
    THEN LET r == removeRelayEntry(f, Str(fl.source), <<>>)
         IN  [flow |-> Finish(fl, IF r.ret THEN "removed_all" ELSE "no_relays"),
              file |-> r.file]
    ELSE IF channel_mentions(m.content) = <<>> /\ ~ParseInt(Strip(m.content)).ok
    THEN [flow |-> Finish(fl, "invalid_dest_id"), file |-> f]
    ELSE LET dest == ResolveReply(m.content).channel
         IN  IF dest = <<>> THEN [flow |-> Finish(fl, "invalid_dest"), file |-> f]
             ELSE LET r == removeRelayEntry(f, Str(fl.source), dest)
                  IN  [flow |-> Finish(fl, IF r.ret THEN "removed" ELSE "not_found"),
                       file |-> r.file]

\* a flow resumed with the message its wait_for returned
resume(f, fl, m) ==
    IF fl.pc = "source" THEN [flow |-> onSourceReply(fl, m), file |-> f]
    ELSE IF fl.cmd = "add" THEN add_onDestReply(f, fl, m)
    ELSE remove_onDestReply(f, fl, m)

RECURSIVE Forward(_, _)
\* lines 197-200: one send per destination that resolves, in list order
Forward(dests, content) ==
    IF dests = <<>> THEN <<>>
    ELSE LET rest == Forward(Tail(dests), content)
         IN  IF get_channel(Head(dests)) # <<>>
             THEN <<[to |-> Head(dests), content |-> content]>> \o rest
             ELSE rest

\* on_message that calls process_commands after forwarding too
on_message_AlsoDispatches(f, m) ==
    IF IsBot(m.author)
    THEN [file |-> f, sent |-> <<>>, dispatched |-> 0, invoked |-> <<>>]
    ELSE LET g == getRelayChannels(f)
             messageChannelID == Str(m.channel)
             invoked == IF IsAdministrator(m.author) THEN CommandOf(m.content) ELSE <<>>
         IN  IF messageChannelID \in DOMAIN g.relay
             THEN [file |-> g.file, sent |-> Forward(g.relay[messageChannelID], m.content),
                   dispatched |-> 1, invoked |-> invoked]
             ELSE [file |-> g.file, sent |-> <<>>, dispatched |-> 1, invoked |-> invoked]

\* on_message that routes by a mapping read once, when the first flow started
on_message_Cached(f, m) ==
    IF IsBot(m.author)
    THEN [file |-> f, sent |-> <<>>, dispatched |-> 0, invoked |-> <<>>]
    ELSE LET g == getRelayChannels(f)
             cached == IF flows = <<>> THEN g.relay ELSE flows[1].start
             messageChannelID == Str(m.channel)
         IN  IF messageChannelID \in DOMAIN cached
             THEN [file |-> g.file, sent |-> Forward(cached[messageChannelID], m.content),
                   dispatched |-> 0, invoked |-> <<>>]
             ELSE [file |-> g.file, sent |-> <<>>, dispatched |-> 1,
                   invoked |-> IF IsAdministrator(m.author) THEN CommandOf(m.content)
                               ELSE <<>>]

\* on_message whose commands lack the has_permissions check
on_message_NoPermissionCheck(f, m) ==
    IF IsBot(m.author)
    THEN [file |-> f, sent |-> <<>>, dispatched |-> 0, invoked |-> <<>>]
    ELSE LET g == getRelayChannels(f)
             messageChannelID == Str(m.channel)
         IN  IF messageChannelID \in DOMAIN g.relay
             THEN [file |-> g.file, sent |-> Forward(g.relay[messageChannelID], m.content),
                   dispatched |-> 0, invoked |-> <<>>]
             ELSE [file |-> g.file, sent |-> <<>>, dispatched |-> 1,
                   invoked |-> CommandOf(m.content)]

\* on_message without the test of message.author.bot
on_message_NoBotCheck(f, m) ==
    LET g == getRelayChannels(f)
        messageChannelID == Str(m.channel)
    IN  IF messageChannelID \in DOMAIN g.relay
        THEN [file |-> g.file, sent |-> Forward(g.relay[messageChannelID], m.content),
              dispatched |-> 0, invoked |-> <<>>]
        ELSE [file |-> g.file, sent |-> <<>>, dispatched |-> 1,
              invoked |-> IF IsAdministrator(m.author) THEN CommandOf(m.content)
                          ELSE <<>>]

\* on_message(message): the file left behind, the sends, the calls of
\* process_commands and the command invoked (<<>> for none)
on_message(f, m) ==
    IF IsBot(m.author)
    THEN [file |-> f, sent |-> <<>>, dispatched |-> 0, invoked |-> <<>>]
    ELSE LET g == getRelayChannels(f)
             messageChannelID == Str(m.channel)
         IN  IF messageChannelID \in DOMAIN g.relay
             THEN [file |-> g.file, sent |-> Forward(g.relay[messageChannelID], m.content),
                   dispatched |-> 0, invoked |-> <<>>]
             ELSE [file |-> g.file, sent |-> <<>>, dispatched |-> 1,
                   invoked |-> IF IsAdministrator(m.author) THEN CommandOf(m.content)
                               ELSE <<>>]

Dispatching == toResume # {} \/ toHandle
Waiting(i) == flows[i].pc # "done" /\ i \notin toResume

\* a message event reaches the client
Arrive ==
    \E m \in Messages :
        /\ ~Dispatching
        /\ (CommandOf(m.content) # <<>> /\ IsAdministrator(m.author))
               => Len(flows) < MaxFlows
        /\ msg' = m
        /\ toResume' = {i \in 1..Len(flows) :
                            flows[i].pc # "done" /\ check_channel(flows[i], m)}
        /\ toHandle' = TRUE
        /\ sent' = <<>>
        /\ dispatched' = 0
        /\ UNCHANGED <<file, last, flows>>

\* a flow whose wait returned msg runs to its next wait or to its end
Resume ==
    \E i \in toResume :
        /\ flows' = [flows EXCEPT ![i] = resume(file, flows[i], msg).flow]
        /\ file' = resume(file, flows[i], msg).file
        /\ toResume' = toResume \ {i}
        /\ UNCHANGED <<last, msg, toHandle, sent, dispatched>>

\* a wait of 60 seconds ends with no message: asyncio.TimeoutError
Timeout ==
    \E i \in 1..Len(flows) :
        /\ Waiting(i)
        /\ flows' = [flows EXCEPT ![i] = Finish(flows[i], "cancelled")]
        /\ UNCHANGED <<file, last, msg, toResume, toHandle, sent, dispatched>>

\* on_message(msg) runs
OnMessage ==
    /\ toHandle
    /\ toHandle' = FALSE
    /\ file' = on_message(file, msg).file
    /\ sent' = on_message(file, msg).sent
    /\ dispatched' = on_message(file, msg).dispatched
    /\ flows' = IF on_message(file, msg).invoked = <<>> THEN flows
                ELSE Append(flows, NewFlow(on_message(file, msg).invoked[1], msg,
                                           getRelayChannels(file).relay))
    /\ UNCHANGED <<last, msg, toResume>>

Next == Arrive \/ Resume \/ Timeout \/ OnMessage

Spec == Init /\ [][Next]_vars

\* The event loop runs every coroutine that is ready, and the timer of
\* wait_for(timeout=60.0) fires for a wait that gets no message.
\* Checked from one of the initial files: the mapping 10 -> [20].
FairFiles == {JsonFile([relayChannels |-> [k \in {Str(10)} |-> <<20>>]])}

FairInit == Init /\ file \in FairFiles

FairSpec ==
    /\ FairInit /\ [][Next]_vars
    /\ WF_vars(Resume) /\ WF_vars(OnMessage) /\ WF_vars(Timeout)

(***************************************************************************)
(* Properties of the config store, checked under StoreSpec.                *)
(***************************************************************************)
\* the mapping getRelayChannels() returns for a file
RelayIn(f) == getRelayChannels(f).relay

\* a well-formed RelayConfig: the field is there and no list is empty
WellFormed(config) ==
    /\ "relayChannels" \in DOMAIN config
    /\ \A k \in DOMAIN config["relayChannels"] : config["relayChannels"][k] # <<>>

ReadsWellFormed(f) == WellFormed(loadConfig(f).config)

MutatingCall == last.op \in {"add", "remove"}

\* last was removeRelayEntry on a missing source or a missing destination
RemoveMisses ==
    /\ last.op = "remove"
    /\ \/ last.sourceId \notin DOMAIN RelayIn(last.pre)
       \/ /\ last.destId # <<>>
          /\ ~Occurs(RelayIn(last.pre)[last.sourceId], last.destId[1])

\* every key but k maps to the same list in both mappings
SameElsewhere(before, after, k) ==
    /\ DOMAIN after \ {k} = DOMAIN before \ {k}
    /\ \A x \in DOMAIN before \ {k} : after[x] = before[x]

\* C1 as stated: after every add or remove call, from any file, the file
\* reads back as a well-formed RelayConfig.
C1_AlwaysWellFormed == MutatingCall => ReadsWellFormed(file)

\* C1 amended: an add or remove call on a file that was absent, empty, not
\* valid JSON or well-formed leaves a file loadConfig reads as well-formed.
C1_WellFormedKept ==
    (MutatingCall /\ (last.pre.kind # "json" \/ WellFormed(last.pre.config)))
        => ReadsWellFormed(file)

C1_Witness ==
    /\ last.op = "remove" /\ last.ret /\ last.destId # <<>>
    /\ last.pre.kind = "json" /\ WellFormed(last.pre.config)
    /\ Cardinality(DOMAIN RelayIn(last.pre)) = 2
    /\ Cardinality(DOMAIN RelayIn(file)) = 1

C5_MissLeavesFile == RemoveMisses => (last.ret = FALSE /\ file = last.pre)

\* C5 amended: a remove that misses returns false and leaves the file as
\* its load left it: as it was when it held JSON or was empty, the default
\* config when it was absent or unparsable; the mapping read back is the same.
C5_MissLeavesLoadedFile ==
    RemoveMisses =>
        /\ last.ret = FALSE
        /\ last.pre.kind \in {"json", "empty"} => file = last.pre
        /\ last.pre.kind \in {"absent", "invalid"} => file = JsonFile(DefaultConfig)
        /\ RelayIn(file) = RelayIn(last.pre)

C5_Witness ==
    /\ RemoveMisses /\ last.destId # <<>>
    /\ last.sourceId \in DOMAIN RelayIn(last.pre)
    /\ Len(RelayIn(last.pre)[last.sourceId]) = 2

\* C6: an add leaves its source as a key, and removeRelayEntry(s) on a key s
\* returns true, leaves no key s and keeps every other key and its list.
C6_RemoveAllDropsKey ==
    /\ last.op = "add" => last.sourceId \in DOMAIN RelayIn(file)
    /\ (last.op = "remove" /\ last.destId = <<>>
            /\ last.sourceId \in DOMAIN RelayIn(last.pre))
        => /\ last.ret = TRUE
           /\ last.sourceId \notin DOMAIN RelayIn(file)
           /\ SameElsewhere(RelayIn(last.pre), RelayIn(file), last.sourceId)

C6_Witness ==
    /\ last.op = "remove" /\ last.destId = <<>> /\ last.ret
    /\ Len(RelayIn(last.pre)[last.sourceId]) = 2
    /\ DOMAIN RelayIn(file) # {}

\* C7: removeRelayEntry(s, d) with d the only element of s's list returns
\* true and the file written has no key s; no remove that returns true
\* leaves an empty list under its source.
C7_SoleDestDropsKey ==
    /\ (last.op = "remove" /\ last.destId # <<>>
            /\ last.sourceId \in DOMAIN RelayIn(last.pre)
            /\ RelayIn(last.pre)[last.sourceId] = last.destId)
        => /\ last.ret = TRUE
           /\ file.kind = "json"
           /\ last.sourceId \notin DOMAIN RelayOf(file.config)
    /\ (last.op = "remove" /\ last.ret /\ last.sourceId \in DOMAIN RelayIn(file))
        => RelayIn(file)[last.sourceId] # <<>>

C7_Witness ==
    /\ last.op = "remove" /\ last.ret
    /\ last.sourceId \in DOMAIN RelayIn(last.pre)
    /\ RelayIn(last.pre)[last.sourceId] = last.destId
    /\ last.destId = <<Dangling>>

\* C8: updateRelayChannels(s, d) leaves under s the list it found (empty
\* when s was no key) with d appended, duplicates kept, and every other key
\* as it was.
C8_AddAppends ==
    last.op = "add" =>
        LET before == RelayIn(last.pre)
            old == IF last.sourceId \in DOMAIN before THEN before[last.sourceId] ELSE <<>>
        IN  /\ last.sourceId \in DOMAIN RelayIn(file)
            /\ RelayIn(file)[last.sourceId] = old \o last.destId
            /\ SameElsewhere(before, RelayIn(file), last.sourceId)

C8_Witness ==
    /\ last.op = "add"
    /\ \E s \in DOMAIN RelayIn(file) : RelayIn(file)[s] = <<10, 20, 10>>

\* C15: removeRelayEntry(s, d) with d in s's list k >= 1 times returns true
\* and drops the first occurrence only: d is left k - 1 times, the other
\* entries keep their order, every other key is as it was, and key s is
\* gone exactly when nothing is left of its list.
C15_RemoveDropsFirst ==
    (/\ last.op = "remove" /\ last.destId # <<>>
     /\ last.sourceId \in DOMAIN RelayIn(last.pre)
     /\ Count(RelayIn(last.pre)[last.sourceId], last.destId[1]) >= 1)
        => LET s == last.sourceId
               d == last.destId[1]
               old == RelayIn(last.pre)[s]
               after == RelayIn(file)
               new == IF s \in DOMAIN after THEN after[s] ELSE <<>>
           IN  /\ last.ret = TRUE
               /\ (s \in DOMAIN after) <=> (Len(old) > 1)
               /\ Len(new) = Len(old) - 1
               /\ Count(new, d) = Count(old, d) - 1
               /\ \E i \in 1..Len(old) :
                      /\ old[i] = d
                      /\ \A k \in 1..(i - 1) : old[k] # d
                      /\ \A j \in 1..Len(new) :
                             new[j] = IF j < i THEN old[j] ELSE old[j + 1]
               /\ SameElsewhere(RelayIn(last.pre), after, s)

C15_Witness ==
    /\ last.op = "remove" /\ last.ret /\ last.destId = <<10>>
    /\ RelayIn(last.pre)[last.sourceId] = <<10, 20, 10>>
    /\ RelayIn(file)[last.sourceId] = <<20, 10>>

(***************************************************************************)
(* Properties of the router and the flows, checked under Spec.             *)
(***************************************************************************)
Resolves(d) == d \in Channels

AbortNotices == {"cancelled", "invalid_source", "invalid_dest", "invalid_dest_id"}
MutatingNotices == {"added", "removed", "removed_all"}

\* the token `all` in any letter case
IsAllToken(c) ==
    /\ Len(c) = 3
    /\ c[1] \in {"a", "A"} /\ c[2] \in {"l", "L"} /\ c[3] \in {"l", "L"}

\* C3: when on_message handles a message of a non-bot author whose channel
\* id, as a string, is a key of the mapping getRelayChannels() returns, it
\* sends the content once per entry of that key's list that resolves, in
\* list order, to those channels only, calls process_commands not at all and
\* starts no flow; when the channel is no key it sends nothing and calls
\* process_commands once.
C3_RouteOrDispatch ==
    [][(toHandle /\ ~toHandle' /\ ~IsBot(msg.author)) =>
          LET relay == RelayIn(file)
              key == Str(msg.channel)
          IN  IF key \in DOMAIN relay
              THEN /\ dispatched' = 0
                   /\ flows' = flows
                   /\ [i \in 1..Len(sent') |-> sent'[i].to] = SelectSeq(relay[key], Resolves)
                   /\ \A i \in 1..Len(sent') : sent'[i].content = msg.content
              ELSE /\ sent' = <<>>
                   /\ dispatched' = 1]_vars

C3_Witness ==
    /\ msg # <<>> /\ ~toHandle
    /\ msg.author = Admin /\ msg.content = AddCommand /\ msg.channel = 10
    /\ sent = <<[to |-> 20, content |-> AddCommand]>>
    /\ dispatched = 0
    /\ Str(10) \in DOMAIN RelayIn(file) /\ Len(RelayIn(file)[Str(10)]) = 2

\* C4: a flow that ended with a cancellation or invalid-channel notice, while
\* no other flow changed the mapping, leaves the mapping in the file as it
\* was when the flow started.
C4_AbortKeepsMapping ==
    \A i \in 1..Len(flows) :
        (/\ flows[i].notice \in AbortNotices
         /\ \A j \in 1..Len(flows) : j # i => flows[j].notice \notin MutatingNotices)
            => RelayIn(file) = flows[i].start

C4_Witness ==
    \E i \in 1..Len(flows) :
        /\ flows[i].cmd = "add" /\ flows[i].notice = "invalid_dest"
        /\ flows[i].start # EmptyMap
        /\ Len(flows) = 2

\* C9: a remove flow whose source resolved and whose second reply is `all`
\* in any letter case ends with the source key absent from the mapping, and
\* with the notice "removed all relays" when the key was there before the
\* call and "no relays found" when it was not.
C9_RemoveAllAnyCase ==
    [][\A i \in toResume :
          (/\ i \notin toResume'
           /\ flows[i].cmd = "remove" /\ flows[i].pc = "dest"
           /\ IsAllToken(msg.content))
              => /\ flows'[i].pc = "done"
                 /\ Str(flows[i].source) \notin DOMAIN RelayIn(file')
                 /\ flows'[i].notice =
                        IF Str(flows[i].source) \in DOMAIN RelayIn(file)
                        THEN "removed_all" ELSE "no_relays"]_vars

C9_Witness ==
    \E i \in 1..Len(flows) :
        /\ flows[i].cmd = "remove" /\ flows[i].notice = "removed_all"
        /\ msg # <<>> /\ msg.content = <<"A", "l", "l">>
        /\ check_channel(flows[i], msg)
        /\ toResume = {}
        /\ Str(flows[i].source) \in DOMAIN flows[i].start

(***************************************************************************)
(* Steps, as the properties below tell them apart.                         *)
(***************************************************************************)
\* on_message runs in this step
HandlerStep == toHandle /\ ~toHandle'
\* flow i resumes with msg in this step
ResumeStep(i) == i \in toResume /\ i \notin toResume'
\* a message event is dispatched in this step
ArriveStep == ~toHandle /\ toHandle'

\* the text c names channel d, by id or by mention
Names(c, d) ==
    c \in {Str(d), <<" ">> \o Str(d) \o <<" ">>, MentionOf(d),
           RemoveCommand \o <<" ">> \o MentionOf(d)}

\* a text with no mention that is no number
PlainWords == {AddCommand, RemoveCommand}

KeyIn(f, c) == Str(c) \in DOMAIN RelayIn(f)
CountIn(f, c, d) == IF KeyIn(f, c) THEN Count(RelayIn(f)[Str(c)], d) ELSE 0
Targets(s) == {s[k].to : k \in 1..Len(s)}

\* C11: a commit is in the file when the flow's step ends, and on_message
\* routes by the file as it is when it runs: an add flow that resolved
\* (s, d) leaves d last in s's list in the file; a remove flow that reports
\* "removed all" leaves no key s in the file; and a message of a non-bot
\* author in channel s is sent to d exactly when d is in s's list in the
\* file at that moment.
C11_NoCachedView ==
    [][/\ \A i \in 1..Len(flows) : \A d \in Channels :
              (ResumeStep(i) /\ flows[i].cmd = "add" /\ flows[i].pc = "dest"
                   /\ Names(msg.content, d))
                  => /\ flows'[i].notice = "added"
                     /\ file'.kind = "json"
                     /\ KeyIn(file', flows[i].source)
                     /\ LET l == RelayOf(file'.config)[Str(flows[i].source)]
                        IN  l[Len(l)] = d
       /\ \A i \in 1..Len(flows) :
              (ResumeStep(i) /\ flows'[i].notice \in {"removed", "removed_all"})
                  => /\ file'.kind = "json"
                     /\ flows'[i].notice = "removed_all"
                            => Str(flows[i].source) \notin DOMAIN RelayOf(file'.config)
       /\ (HandlerStep /\ ~IsBot(msg.author))
              => \A d \in Channels :
                     (d \in Targets(sent')) <=> (CountIn(file, msg.channel, d) > 0)]_vars

C11_Witness ==
    /\ msg # <<>> /\ ~Dispatching
    /\ msg.channel = 10 /\ msg.author = Member
    /\ sent = <<[to |-> 20, content |-> msg.content]>>
    /\ \E i \in 1..Len(flows) :
           /\ flows[i].cmd = "add" /\ flows[i].notice = "added" /\ flows[i].source = 10
           /\ Str(10) \notin DOMAIN flows[i].start
    /\ \A i \in 1..Len(flows) : flows[i].cmd = "add"

\* C12: a message of a user without the administrator permission starts no
\* flow and leaves the mapping as it is; every flow is started by on_message
\* handling a message of an administrator, who is the flow's author; and the
\* mapping changes only in a step of a flow whose author is an administrator.
C12_AdministratorOnly ==
    [][/\ (HandlerStep /\ ~IsAdministrator(msg.author))
              => (flows' = flows /\ RelayIn(file') = RelayIn(file))
       /\ Len(flows') > Len(flows)
              => /\ HandlerStep
                 /\ IsAdministrator(msg.author)
                 /\ flows'[Len(flows')].author = msg.author
       /\ RelayIn(file') # RelayIn(file)
              => \E i \in 1..Len(flows) :
                     ResumeStep(i) /\ IsAdministrator(flows[i].author)]_vars

C12_Witness ==
    /\ msg # <<>> /\ ~Dispatching
    /\ msg.author = Member /\ msg.content = AddCommand
    /\ dispatched = 1
    /\ flows = <<>>

\* C14: a message resumes a flow only when its author is the flow's author
\* and its channel the flow's channel; a flow changes only when it resumes
\* with such a message or when its wait times out.
C14_OnlyOwnReplies ==
    [][/\ \A i \in toResume' :
              msg'.author = flows'[i].author /\ msg'.channel = flows'[i].channel
       /\ \A i \in 1..Len(flows) :
              flows'[i] # flows[i]
                  => \/ /\ ResumeStep(i)
                        /\ msg.author = flows[i].author
                        /\ msg.channel = flows[i].channel
                     \/ /\ i \notin toResume
                        /\ toResume' = toResume
                        /\ flows'[i] = [flows[i] EXCEPT !.pc = "done",
                                                         !.notice = "cancelled"]]_vars

C14_Witness ==
    /\ msg # <<>> /\ ~Dispatching
    /\ msg.author = Admin /\ msg.channel = 20 /\ msg.content = Str(20)
    /\ \E i \in 1..Len(flows) :
           /\ flows[i].channel = 10 /\ flows[i].pc = "dest"
    /\ \A i \in 1..Len(flows) : flows[i].channel = 10

\* C16: a remove flow in its second wait, resumed with a reply that is not
\* `all`: a reply with no mention that is no number ends it with "invalid
\* destination channel ID"; a reply that resolves to no channel ends it with
\* "invalid destination channel"; a reply that names channel d ends it with
\* "removed" and one occurrence of d less when d was in the source's list,
\* and with "not found" and the file as it was when d was not.
C16_RemoveOneDest ==
    [][\A i \in 1..Len(flows) :
          (ResumeStep(i) /\ flows[i].cmd = "remove" /\ flows[i].pc = "dest"
               /\ ~IsAllToken(msg.content))
              => /\ flows'[i].pc = "done"
                 /\ msg.content \in PlainWords
                        => (flows'[i].notice = "invalid_dest_id" /\ file' = file)
                 /\ msg.content = Str(Dangling)
                        => (flows'[i].notice = "invalid_dest" /\ file' = file)
                 /\ \A d \in Channels :
                        Names(msg.content, d)
                            => IF CountIn(file, flows[i].source, d) > 0
                               THEN /\ flows'[i].notice = "removed"
                                    /\ CountIn(file', flows[i].source, d)
                                           = CountIn(file, flows[i].source, d) - 1
                               ELSE /\ flows'[i].notice = "not_found"
                                    /\ file' = file]_vars

C16_Witness ==
    /\ msg # <<>> /\ toResume = {}
    /\ \E i \in 1..Len(flows) :
           /\ flows[i].cmd = "remove" /\ flows[i].notice = "not_found"
           /\ check_channel(flows[i], msg)
           /\ KeyIn(file, flows[i].source)
           /\ Names(msg.content, 20)

\* C17 as stated: on_message sends and dispatches nothing for a message of
\* a bot author, and sends a message of any other author in a source channel
\* once per entry of the source's list.
C17_OneForwardPerEntry ==
    [][/\ (HandlerStep /\ IsBot(msg.author))
              => (sent' = <<>> /\ dispatched' = 0 /\ flows' = flows /\ file' = file)
       /\ (HandlerStep /\ ~IsBot(msg.author) /\ KeyIn(file, msg.channel))
              => Len(sent') = Len(RelayIn(file)[Str(msg.channel)])]_vars

\* C17 amended: on_message sends and dispatches nothing for a message of a
\* bot author, and sends a message of any other author in a source channel
\* once per entry of the source's list that resolves to a channel; entries
\* that resolve to nothing get no send.
C17_NoRelayLoop ==
    [][/\ (HandlerStep /\ IsBot(msg.author))
              => (sent' = <<>> /\ dispatched' = 0 /\ flows' = flows /\ file' = file)
       /\ (HandlerStep /\ ~IsBot(msg.author) /\ KeyIn(file, msg.channel))
              => /\ Len(sent') = Len(SelectSeq(RelayIn(file)[Str(msg.channel)], Resolves))
                 /\ \A d \in DestIds :
                        Cardinality({k \in 1..Len(sent') : sent'[k].to = d})
                            = IF Resolves(d) THEN CountIn(file, msg.channel, d) ELSE 0]_vars

C17_Witness ==
    /\ msg # <<>> /\ ~Dispatching
    /\ msg.author = BotUser /\ msg.channel = 20
    /\ sent = <<>> /\ dispatched = 0
    /\ KeyIn(file, 10) /\ KeyIn(file, 20)
    /\ RelayIn(file)[Str(10)] = <<20>> /\ RelayIn(file)[Str(20)] = <<10>>
    /\ \E i \in 1..Len(flows) : flows[i].notice = "added"

\* C18 as stated: a flow starts only by a message in a channel that is no
\* key, and once an add flow has committed with its own channel as the
\* source, that key is removed only by a flow started in another channel.
C18_RemovedFromElsewhere ==
    [][/\ Len(flows') > Len(flows)
              => (HandlerStep /\ ~KeyIn(file, msg.channel))
       /\ \A c \in Channels :
              (/\ KeyIn(file, c) /\ ~KeyIn(file', c)
               /\ \E j \in 1..Len(flows) :
                      /\ flows[j].cmd = "add" /\ flows[j].notice = "added"
                      /\ flows[j].channel = c /\ flows[j].source = c)
                  => \E i \in 1..Len(flows) :
                         ResumeStep(i) /\ flows[i].channel # c]_vars

\* C18 amended: a flow starts only by a message in a channel that is no key
\* at that moment, and a key is removed only by a remove flow: one started
\* in another channel, or one started in that channel before it was a key.
C18_NoFlowFromSource ==
    [][/\ Len(flows') > Len(flows)
              => (HandlerStep /\ ~KeyIn(file, msg.channel))
       /\ \A c \in Channels :
              (KeyIn(file, c) /\ ~KeyIn(file', c))
                  => \E i \in 1..Len(flows) :
                         /\ ResumeStep(i) /\ flows[i].cmd = "remove"
                         /\ \/ flows[i].channel # c
                            \/ Str(c) \notin DOMAIN flows[i].start]_vars

C18_Witness ==
    /\ msg # <<>> /\ ~Dispatching
    /\ msg.author = Admin /\ msg.channel = 10 /\ msg.content = RemoveCommand
    /\ Len(flows) = 1
    /\ flows[1].cmd = "add" /\ flows[1].channel = 10 /\ flows[1].source = 10
    /\ flows[1].notice = "added"
    /\ dispatched = 0 /\ sent # <<>>

\* C19: a message event resumes every flow that is waiting with the
\* message's author and channel, whatever its text, a command included, and
\* each such flow takes it as its reply: it moves on or ends.
C19_RepliesNotTold ==
    [][/\ ArriveStep
              => toResume' = {i \in 1..Len(flows) :
                                  /\ flows[i].pc # "done"
                                  /\ flows[i].author = msg'.author
                                  /\ flows[i].channel = msg'.channel}
       /\ \A i \in 1..Len(flows) :
              ResumeStep(i) => (flows'[i] # flows[i] /\ flows[i].pc # "done")]_vars

\* two flows wait on the same user and channel at once, the second started
\* by a message the first took as its source reply
C19_Witness ==
    /\ msg # <<>> /\ ~Dispatching
    /\ CommandOf(msg.content) # <<>>
    /\ Len(flows) = 2
    /\ flows[1].pc = "dest" /\ flows[2].pc = "source"
    /\ flows[1].author = flows[2].author /\ flows[1].channel = flows[2].channel
    /\ check_channel(flows[1], msg)

\* the waits a flow has behind it
Rank(pc) == CASE pc = "source" -> 1 [] pc = "dest" -> 2 [] pc = "done" -> 3
TerminalNotices == AbortNotices \cup MutatingNotices \cup {"no_relays", "not_found"}

\* C13: every started flow ends, provided a wait that gets no message times
\* out; a flow only moves forward, from its first wait to its second or to
\* its end, so it waits at most twice and repeats no prompt; it has a
\* notice exactly when it has ended, one of the terminal notices, and keeps
\* it; it reaches the second wait only with a source that resolved; and it
\* reports a success only in a step that leaves the changed mapping in the
\* file.
C13_FlowsTerminate ==
    /\ [][/\ Len(flows') > Len(flows)
                 => /\ flows'[Len(flows')].pc = "source"
                    /\ flows'[Len(flows')].notice = ""
          /\ \A i \in 1..Len(flows) :
                 /\ flows[i].pc = "done" => flows'[i] = flows[i]
                 /\ flows'[i] # flows[i]
                        => Rank(flows'[i].pc) > Rank(flows[i].pc)
                 /\ ResumeStep(i) => Rank(flows'[i].pc) > Rank(flows[i].pc)
                 /\ flows'[i].pc = "done" <=> flows'[i].notice # ""
                 /\ flows'[i].pc = "done" => flows'[i].notice \in TerminalNotices
                 /\ flows'[i].pc = "dest" => flows'[i].source \in Channels
                 /\ (flows[i].notice = "" /\ flows'[i].notice \in MutatingNotices)
                        => /\ file'.kind = "json"
                           /\ RelayOf(file'.config) # RelayIn(file)
                           /\ flows[i].pc = "dest"]_vars
    /\ \A i \in 1..MaxFlows :
           (Len(flows) >= i) ~> (Len(flows) >= i /\ flows[i].pc = "done")

C13_Witness ==
    /\ Len(flows) = 2
    /\ flows[1].notice = "removed" /\ flows[1].pc = "done"
    /\ flows[2].notice = "cancelled" /\ flows[2].source \in Channels
    /\ ~Dispatching

====
